---- MODULE Spec2Model ----
(***************************************************************************)
(* Model of src/main.rs: the resize_handler request pipeline of the image  *)
(* transformation cache, run by concurrent requests over one "images"      *)
(* directory.  Each handler step that touches the file system, the         *)
(* download client or a codec is one action; the external collaborators    *)
(* (file system, HTTP client, codecs) choose their results                 *)
(* nondeterministically among the outcomes their signatures allow.         *)
(***************************************************************************)
EXTENDS Integers, Sequences, FiniteSets, TLC

(* ---------------- bounds of the model ---------------- *)

\* longest body the download collaborator returns
MaxBodyLen == 2

\* number of requests the server accepts in one run
MaxRequests == 2

(* ---------------- inputs ---------------- *)

\* the concurrently running request handlers
Procs == {"r1", "r2"}

\* the request paths (source identifiers)
Sources == {"a"}

\* the tallestSide values requests carry
Sides == {1, 2}

\* Option<String>: None is the empty tuple, Some(s) is <<s>>
None == <<>>

Some(s) == <<s>>

\* the format strings requests carry
FormatInputs == {None, Some("qoi"), Some("heic"), Some("bmp"), Some("QOI")}

\* what the body of a request is: a JSON ResizeRequest, bytes that are not
\* UTF-8, or UTF-8 text that is not a ResizeRequest
BodyKinds == {"json", "notutf8", "malformed"}

\* a response body of the download collaborator: n bytes, all of value n
BodyOf(n) == [i \in 1..n |-> n]

Bodies == {BodyOf(n) : n \in 0..MaxBodyLen}

\* data.open(1024.bytes()): the ceiling on the bytes read from the body
BodyLimit == 1024

\* the body lengths of the model: one within the ceiling, one beyond it
BodyLens == {32, BodyLimit + 1}

\* the number of bytes data.open(BodyLimit).into_bytes() hands to the parser:
\* the read stops at the ceiling and reports no error
CappedLen(n) == IF n > BodyLimit THEN BodyLimit ELSE n

\* the requests of the model: every format input at the first side, one
\* supported format at the other sides, the bodies that do not parse, and
\* bodies beyond the ceiling.  kind says what the bytes handed to the parser
\* (the first CappedLen(body_len) bytes of the body) are.
Requests ==
    [kind : {"json"}, source : Sources, tallestSide : {1}, format : FormatInputs,
     body_len : {32}]
    \cup [kind : {"json"}, source : Sources, tallestSide : Sides, format : {Some("qoi")},
          body_len : {32}]
    \cup [kind : BodyKinds \ {"json"}, source : Sources, tallestSide : {1}, format : {None},
          body_len : {32}]
    \cup [kind : {"json"}, source : Sources, tallestSide : {1}, format : {Some("qoi")},
          body_len : BodyLens]
    \cup [kind : {"malformed"}, source : Sources, tallestSide : {1}, format : {None},
          body_len : BodyLens]

NoRequest ==
    [kind |-> "none", source |-> "", tallestSide |-> 0, format |-> None, body_len |-> 0]

(* ---------------- pure helpers of the handler ---------------- *)

\* to_lowercase, had the handler compared the format string as it came
to_lowercase_AsGiven(s) == s

\* str::to_lowercase over the format strings of the model
to_lowercase(s) ==
    CASE s = "QOI" -> "qoi"
      [] s = "HEIC" -> "heic"
      [] s = "AVIF" -> "avif"
      [] s = "JXL" -> "jxl"
      [] s = "BMP" -> "bmp"
      [] OTHER -> s

\* request.format.as_ref().map_or(String::new(), |s| s.to_lowercase())
format_str(request) ==
    IF request.format = None THEN "" ELSE to_lowercase(request.format[1])

SupportedFormats == {"avif", "heic", "jxl", "qoi"}

\* the format check, had it only refused the empty string
IsSupportedFormat_AnyName(f) == f # ""

\* ["avif", "heic", "jxl", "qoi"].contains(&format_str.as_str())
IsSupportedFormat(f) == f \in SupportedFormats

\* blake3 of the source, hex encoded: an injective tag of the input
calculate_hash(input) == "b3" \o input

\* format!("{hash_str}_{}.{}", request.tallestSide, format_str)
resized_filename(request) ==
    calculate_hash(request.source) \o "_" \o ToString(request.tallestSide)
        \o "." \o format_str(request)

\* images_dir.join(&hash_str)
downloaded_image_path(request) == calculate_hash(request.source)

(* ---------------- results and responses ---------------- *)

\* Ok(json!({"status": .., "hash": .., "filename": ..}))
OkResult(status, request) ==
    [kind |-> "Ok", status |-> status, hash |-> calculate_hash(request.source),
     filename |-> resized_filename(request), error |-> ""]

\* Err(CustomError::..)
ErrResult(e) ==
    [kind |-> "Err", status |-> "ERROR", hash |-> "", filename |-> "", error |-> e]

NoResult == [kind |-> "None", status |-> "", hash |-> "", filename |-> "", error |-> ""]

\* enum CustomError
CustomError ==
    {"UnsupportedFormat", "DownloadError", "ImageDecodeError", "ResizeError",
     "FileCreationError", "ImageEncodeError", "DirectoryCreationError",
     "FileWriteError", "FileReadError", "FileCorruptError", "BadRequest",
     "ProcessingError", "JsonDeserializeError"}

\* the status rocket's responder for a serde_json Value answers with
JsonValueStatus == 200

\* impl Responder for CustomError: SerdeJsonValue::from(self).respond_to(request)
respond_to_error(e) ==
    [status |-> JsonValueStatus, body |-> [status |-> "ERROR", reason |-> e]]

\* the response rocket sends for the handler's Result<SerdeJsonValue, CustomError>
respond_to(r) ==
    IF r.kind = "Err"
    THEN respond_to_error(r.error)
    ELSE [status |-> JsonValueStatus,
          body |-> [status |-> r.status, hash |-> r.hash, filename |-> r.filename]]

(* ---------------- the file system and the collaborators ---------------- *)

\* the file at path f holds x afterwards (created when absent)
Put(st, f, x) == [g \in DOMAIN st \cup {f} |-> IF g = f THEN x ELSE st[g]]

\* File::create: creates the file or truncates the one that is there
FileCreate(st, f) == Put(st, f, <<>>)

\* write of data at offset 0 through a fresh handle, over the current content
WriteAt0(old, data) == data \o SubSeq(old, Len(data) + 1, Len(old))

\* file.write_all(data) that succeeds
FileWriteAll(st, f, data) == Put(st, f, WriteAt0(st[f], data))

\* file.write_all(data) that fails after k bytes
FileWritePart(st, f, data, k) == Put(st, f, WriteAt0(st[f], SubSeq(data, 1, k)))

\* the results fs::read can give for path f
ReadResults(st, f) ==
    (IF f \in DOMAIN st
     THEN {[kind |-> "Ok", bytes |-> st[f]]}
     ELSE {[kind |-> "NotFound", bytes |-> <<>>]})
    \cup {[kind |-> "OtherError", bytes |-> <<>>]}

\* the bytes an encoder builds for an image decoded from img
EncodedBytes(img) == [i \in 1..Len(img) |-> 10 + Len(img)]

\* what a byte-returning encoder (encode_avif, encode_jxl, encode_qoi) may
\* hand back as Ok(Vec<u8>)
EncoderOutputs(img) == {<<>>, EncodedBytes(img)}

NoCalls ==
    [download |-> 0, decode |-> 0, resize |-> 0, encode |-> 0, persist |-> 0, disk |-> 0]

(* ---------------- state ---------------- *)

(* ---------------- f64 arithmetic of calculate_resized_dimensions ---------------- *)

\* An f64 mantissa has more bits than an integer of the checker: naturals of
\* up to NumLimbs * 15 bits are little-endian sequences of limbs.
Limb == 2^15

NumLimbs == 5

\* the significand of an f64 has 53 bits
MantissaBits == 53

LimbOf(x, i) == IF i \in 1..NumLimbs THEN x[i] ELSE 0

\* the natural n (below 2^31) as limbs
Big(n) ==
    [i \in 1..NumLimbs |->
        CASE i = 1 -> n % Limb
          [] i = 2 -> (n \div Limb) % Limb
          [] i = 3 -> (n \div Limb) \div Limb
          [] OTHER -> 0]

\* the value of x, for x below 2^30
ToInt(x) == x[1] + x[2] * Limb

RECURSIVE MulCarry(_, _, _, _)
\* the carry into limb i of x * c + a
MulCarry(x, c, a, i) ==
    IF i = 1 THEN a ELSE (x[i - 1] * c + MulCarry(x, c, a, i - 1)) \div Limb

\* x * c + a for naturals c, a below Limb
MulSmall(x, c, a) == [i \in 1..NumLimbs |-> (x[i] * c + MulCarry(x, c, a, i)) % Limb]

Dbl(x) == MulSmall(x, 2, 0)

\* x >= y
GE(x, y) ==
    LET D == {i \in 1..NumLimbs : x[i] # y[i]}
    IN  D = {} \/ (LET top == CHOOSE i \in D : \A j \in D : j <= i IN x[top] > y[top])

RECURSIVE Borrow(_, _, _)
\* the borrow out of limb i - 1 of x - y
Borrow(x, y, i) ==
    IF i = 1 THEN 0 ELSE IF x[i - 1] - y[i - 1] - Borrow(x, y, i - 1) < 0 THEN 1 ELSE 0

\* x - y, for x >= y
Sub(x, y) == [i \in 1..NumLimbs |-> (x[i] - y[i] - Borrow(x, y, i)) % Limb]

\* bit j of x, bit 0 being the lowest
BitAt(x, j) ==
    IF j < 0 THEN 0 ELSE (LimbOf(x, (j \div 15) + 1) \div 2^(j % 15)) % 2

\* x shifted right by s bits
Shr(x, s) ==
    [i \in 1..NumLimbs |->
        (LimbOf(x, i + (s \div 15)) \div 2^(s % 15))
        + (LimbOf(x, i + (s \div 15) + 1) % 2^(s % 15)) * 2^(15 - (s % 15))]

\* the number of bits of x (0 for zero)
BitLen(x) ==
    LET S == {j \in 0..(15 * NumLimbs - 1) : BitAt(x, j) = 1}
    IN  IF S = {} THEN 0 ELSE 1 + (CHOOSE j \in S : \A l \in S : l <= j)

\* round to nearest, ties to even: q is the truncated value, and the part cut
\* off compares to one half as half (-1 below, 0 equal, 1 above)
RoundTiesEven(q, half) ==
    IF half > 0 \/ (half = 0 /\ BitAt(q, 0) = 1) THEN MulSmall(q, 1, 1) ELSE q

\* the value of v, computed once
Value(v) == CHOOSE s \in {v} : TRUE

\* one more quotient bit of the long division by b: st.q is the quotient so
\* far, st.r the remainder
DivStep(st, b) ==
    IF GE(Dbl(st.r), b)
    THEN [q |-> MulSmall(st.q, 2, 1), r |-> Sub(Dbl(st.r), b)]
    ELSE [q |-> Dbl(st.q), r |-> Dbl(st.r)]

RECURSIVE DivBits(_, _, _)
\* n more quotient bits
DivBits(st, b, n) ==
    IF n = 0 THEN st
    ELSE CHOOSE res \in {DivBits(s, b, n - 1) : s \in {DivStep(st, b)}} : TRUE

\* one scaling step towards b <= a < 2b; k is the power of two taken out
NormStep(n) ==
    IF GE(n.a, Dbl(n.b)) THEN [a |-> n.a, b |-> Dbl(n.b), k |-> n.k + 1]
    ELSE IF ~GE(n.a, n.b) THEN [a |-> Dbl(n.a), b |-> n.b, k |-> n.k - 1]
    ELSE n

RECURSIVE Normalize(_)
Normalize(n) ==
    CHOOSE res \in {IF s = n THEN n ELSE Normalize(s) : s \in {NormStep(n)}} : TRUE

\* the correctly rounded quotient of the normalized pair n, times 2^e
DivRounded(n, e) ==
    CHOOSE res \in
        {[m |-> RoundTiesEven(d.q, IF GE(Dbl(d.r), n.b)
                                   THEN (IF Dbl(d.r) = n.b THEN 0 ELSE 1)
                                   ELSE 0 - 1),
          e |-> n.k - (MantissaBits - 1) + e]
         : d \in {DivBits([q |-> Big(1), r |-> Sub(n.a, n.b)], n.b, MantissaBits - 1)}} : TRUE

\* an f64 is m * 2^e with m a natural of at most MantissaBits bits
\* line 71: u32 as f64 (exact)
AsF64(n) == [m |-> Big(n), e |-> 0]

\* lines 71, 76: the f64 quotient x / y, correctly rounded
F64Div(x, y) ==
    CHOOSE res \in {DivRounded(n, x.e - y.e)
                    : n \in {Normalize([a |-> x.m, b |-> y.m, k |-> 0])}} : TRUE

\* line 80: the f64 product x * y, correctly rounded, for x an integer below Limb
F64Mul(x, y) ==
    CHOOSE res \in
        {LET d == BitLen(P) - MantissaBits
             low == {j \in 0..(d - 2) : BitAt(P, j) = 1}
             half == IF BitAt(P, d - 1) = 0 THEN 0 - 1 ELSE IF low = {} THEN 0 ELSE 1
         IN  IF d <= 0 THEN [m |-> P, e |-> y.e]
             ELSE [m |-> RoundTiesEven(Shr(P, d), half), e |-> y.e + d]
         : P \in {MulSmall(y.m, ToInt(x.m), 0)}} : TRUE

\* lines 76, 80: f64::round (ties away from zero) followed by `as u32`, for
\* values below 2^30
RoundAsU32(x) ==
    IF x.e >= 0 THEN ToInt(x.m) * 2^(x.e)
    ELSE ToInt(Shr(x.m, 0 - x.e)) + BitAt(x.m, (0 - x.e) - 1)

\* lines 58-89
calculate_resized_dimensions(image, tallest_side) ==
    IF image.width = 0 \/ image.height = 0 \/ tallest_side = 0
    THEN [width |-> 0, height |-> 0]
    ELSE CHOOSE dims \in
            {IF image.width >= image.height
             THEN [width |-> tallest_side,
                   height |-> RoundAsU32(Value(F64Div(AsF64(tallest_side), aspect_ratio)))]
             ELSE [width |-> RoundAsU32(Value(F64Mul(AsF64(tallest_side), aspect_ratio))),
                   height |-> tallest_side]
             : aspect_ratio \in {F64Div(AsF64(image.width), AsF64(image.height))}} : TRUE

\* the largest width and height, and the largest tallestSide, of the inputs
\* calculate_resized_dimensions is applied to
MaxDim == 18

MaxTallest == 9

\* the inputs of the three worked examples, and two upright images
ExampleInputs ==
    {<<4000, 2000, 1000>>, <<2000, 4000, 1000>>, <<1000, 1000, 500>>,
     <<15, 22, 11>>, <<7, 10, 45>>}

\* <<image.width(), image.height(), tallest_side>>
DimInputs == ((0..MaxDim) \X (0..MaxDim) \X (0..MaxTallest)) \cup ExampleInputs

NoImage == [width |-> 0, height |-> 0]

NoDims == [width |-> 0 - 1, height |-> 0 - 1]

VARIABLES
    dirExists,     \* the "images" directory exists
    store,         \* file name in "images" -> content (a sequence of bytes)
    pc,            \* where each handler is
    req,           \* the request each handler serves
    read_kind,     \* the kind of result fs::read gave each handler ("" before)
    image_bytes,   \* image_bytes / downloaded_image_bytes of each handler
    encoded_data,  \* encoded_data of each handler
    result,        \* what each handler returned
    calls,         \* per request: how often each collaborator was used
    nreq,          \* requests accepted so far
    persisted,     \* file names whose transform was computed and fully written
    returned,      \* file names some request has answered TRANSFORMED for
    prior,         \* per handler: its file name was in returned when it started
    metrics,       \* the metrics vector of each handler (the step names)
    stages,        \* per request: the stages that have run, in the order they ran
    src_hit,       \* per handler: its source blob was cached, non-empty, at arrival
    bad_sources,   \* sources for which an empty download ended with BadRequest
    after_bad,     \* per handler: its source was in bad_sources when it arrived
    image,         \* the image calculate_resized_dimensions is applied to
    tallest_side,  \* its tallest_side argument
    resized_dims   \* the ResizedDimensions it returned (NoDims before)

vars ==
    <<dirExists, store, pc, req, read_kind, image_bytes, encoded_data, result, calls,
      nreq, persisted, returned, prior, metrics, stages, src_hit, bad_sources, after_bad,
      image, tallest_side, resized_dims>>

\* the variables of the handlers
handler_vars ==
    <<dirExists, store, pc, req, read_kind, image_bytes, encoded_data, result, calls,
      nreq, persisted, returned, prior, metrics, stages, src_hit, bad_sources, after_bad>>

\* the variables of an application of calculate_resized_dimensions
dim_vars == <<image, tallest_side, resized_dims>>

HandlerInit ==
    /\ dirExists = FALSE
    /\ store = <<>>
    /\ pc = [p \in Procs |-> "idle"]
    /\ req = [p \in Procs |-> NoRequest]
    /\ read_kind = [p \in Procs |-> ""]
    /\ image_bytes = [p \in Procs |-> <<>>]
    /\ encoded_data = [p \in Procs |-> <<>>]
    /\ result = [p \in Procs |-> NoResult]
    /\ calls = [p \in Procs |-> NoCalls]
    /\ nreq = 0
    /\ persisted = {}
    /\ returned = {}
    /\ prior = [p \in Procs |-> FALSE]
    /\ metrics = [p \in Procs |-> <<>>]
    /\ stages = [p \in Procs |-> <<>>]
    /\ src_hit = [p \in Procs |-> FALSE]
    /\ bad_sources = {}
    /\ after_bad = [p \in Procs |-> FALSE]

Init ==
    /\ HandlerInit
    /\ image = NoImage
    /\ tallest_side = 0
    /\ resized_dims = NoDims

\* the handler of p moves to position l
Goto(p, l) == pc' = [pc EXCEPT ![p] = l]

\* the handler of p returns r
Finish(p, r) ==
    /\ pc' = [pc EXCEPT ![p] = "done"]
    /\ result' = [result EXCEPT ![p] = r]

\* one more use of collaborator c by the request of p
Count(p, c) == calls' = [calls EXCEPT ![p][c] = @ + 1]

Count2(p, c, d) == calls' = [calls EXCEPT ![p][c] = @ + 1, ![p][d] = @ + 1]

(* ---------------- decisions of resize_handler ---------------- *)

\* lines 107-116: reading the body and deserializing it; "" when it parses
ParseError(r) ==
    CASE r.kind = "notutf8" -> "BadRequest"
      [] r.kind = "malformed" -> "JsonDeserializeError"
      [] OTHER -> ""

\* lines 118-125: the error the format check returns, "" when it passes
FormatError(r) ==
    IF IsSupportedFormat(format_str(r)) THEN "" ELSE "UnsupportedFormat"

\* the handling of fs::read, had the stored blob been ignored and the source
\* fetched again
AfterRead_Refetch(res) ==
    CASE res.kind \in {"Ok", "NotFound"} -> [next |-> "download", error |-> ""]
      [] OTHER -> [next |-> "done", error |-> "FileReadError"]

\* the handling of fs::read, had a zero-length blob been taken for a miss and
\* downloaded again
AfterRead_EmptyIsMiss(res) ==
    CASE res.kind = "Ok" /\ res.bytes # <<>> -> [next |-> "process", error |-> ""]
      [] res.kind \in {"Ok", "NotFound"} -> [next |-> "download", error |-> ""]
      [] OTHER -> [next |-> "done", error |-> "FileReadError"]

\* lines 143-179: what the handler does with the result of fs::read:
\* the position it goes to ("done" with the error it returns)
AfterRead(res) ==
    CASE res.kind = "Ok" /\ res.bytes = <<>> -> [next |-> "done", error |-> "FileCorruptError"]
      [] res.kind = "Ok" /\ res.bytes # <<>> -> [next |-> "process", error |-> ""]
      [] res.kind = "NotFound" -> [next |-> "download", error |-> ""]
      [] OTHER -> [next |-> "done", error |-> "FileReadError"]

\* the check of image_bytes, had it been left out
EmptyImageError_Missing(bytes) == ""

\* lines 181-183: the check of image_bytes before the pipeline
EmptyImageError(bytes) == IF bytes = <<>> THEN "BadRequest" ELSE ""

\* line 208: whether the handler writes encoded_data itself
HandlerPersists(data) == data # <<>>

\* lines 242-245, 260-263, 276-279: the entries process_image pushes
process_metrics == <<"Decoding", "Resizing", "Encoding">>

\* the Downloading entry, had it been pushed instead of inserted in front
insert_first_Pushed(m, step) == Append(m, step)

\* lines 199-205: metrics.insert(0, ...)
insert_first(m, step) == <<step>> \o m

\* lines 199-205, 217-220: the metrics vector of a request that answers
\* TRANSFORMED
final_metrics == Append(insert_first(process_metrics, "Downloading"), "Saving")

\* stage s of the request of p has run
Ran(p, s) == stages' = [stages EXCEPT ![p] = Append(@, s)]

\* the stages of process_image that ran when it stopped with error e
RanUntil(p, e) ==
    stages' = [stages EXCEPT ![p] =
                  @ \o (CASE e = "ImageDecodeError" -> <<"decode">>
                          [] e = "ResizeError" -> <<"decode", "resize">>
                          [] OTHER -> <<"decode", "resize", "encode">>)]

(* ---------------- actions: one per step of resize_handler ---------------- *)

\* lines 104-125: a request arrives; its body is read and parsed and its
\* format validated
Start(p) ==
    /\ pc[p] = "idle"
    /\ UNCHANGED dim_vars
    /\ nreq < MaxRequests
    /\ \E r \in Requests :
        /\ req' = [req EXCEPT ![p] = r]
        /\ prior' = [prior EXCEPT ![p] = r.kind = "json" /\ resized_filename(r) \in returned]
        /\ src_hit' = [src_hit EXCEPT ![p] =
                          /\ r.kind = "json"
                          /\ downloaded_image_path(r) \in DOMAIN store
                          /\ store[downloaded_image_path(r)] # <<>>]
        /\ after_bad' = [after_bad EXCEPT ![p] = r.kind = "json" /\ r.source \in bad_sources]
        /\ IF ParseError(r) # ""
           THEN Finish(p, ErrResult(ParseError(r)))
           ELSE IF FormatError(r) # ""
                THEN Finish(p, ErrResult(FormatError(r)))
                ELSE Goto(p, "mkdir") /\ UNCHANGED result
    /\ nreq' = nreq + 1
    /\ calls' = [calls EXCEPT ![p] = NoCalls]
    /\ UNCHANGED <<read_kind, dirExists, store, image_bytes, encoded_data, persisted, returned>>
    /\ UNCHANGED <<metrics, stages, bad_sources>>

\* lines 127-131: fs::create_dir_all("images")
CreateDirAll(p) ==
    /\ pc[p] = "mkdir"
    /\ UNCHANGED dim_vars
    /\ UNCHANGED <<metrics, stages, src_hit, bad_sources, after_bad>>
    /\ Count(p, "disk")
    /\ \/ /\ dirExists' = TRUE
          /\ Goto(p, "exists")
          /\ UNCHANGED result
       \/ /\ ~dirExists
          /\ Finish(p, ErrResult("DirectoryCreationError"))
          /\ UNCHANGED dirExists
    /\ UNCHANGED <<store, req, read_kind, image_bytes, encoded_data, nreq, persisted, returned, prior>>

\* lines 133-139: resized_image_path.exists()
CheckExists(p) ==
    /\ pc[p] = "exists"
    /\ UNCHANGED dim_vars
    /\ UNCHANGED <<metrics, stages, src_hit, bad_sources, after_bad>>
    /\ Count(p, "disk")
    /\ IF resized_filename(req[p]) \in DOMAIN store
       THEN Finish(p, OkResult("ALREADY_TRANSFORMED", req[p]))
       ELSE Goto(p, "read") /\ UNCHANGED result
    /\ UNCHANGED <<dirExists, store, req, read_kind, image_bytes, encoded_data, nreq, persisted,
                   returned, prior>>

\* lines 141-152, 175-179: fs::read of the source blob
ReadSource(p) ==
    /\ pc[p] = "read"
    /\ UNCHANGED dim_vars
    /\ UNCHANGED <<metrics, stages, src_hit, bad_sources, after_bad>>
    /\ Count(p, "disk")
    /\ \E res \in ReadResults(store, downloaded_image_path(req[p])) :
        /\ read_kind' = [read_kind EXCEPT ![p] = res.kind]
        /\ image_bytes' = [image_bytes EXCEPT ![p] = res.bytes]
        /\ IF AfterRead(res).next = "done"
           THEN Finish(p, ErrResult(AfterRead(res).error))
           ELSE Goto(p, AfterRead(res).next) /\ UNCHANGED result
    /\ UNCHANGED <<dirExists, store, req, encoded_data, nreq, persisted, returned, prior>>

\* lines 153-164: the GET of the source
Download(p) ==
    /\ pc[p] = "download"
    /\ UNCHANGED dim_vars
    /\ Ran(p, "download")
    /\ UNCHANGED <<metrics, src_hit, bad_sources, after_bad>>
    /\ Count(p, "download")
    /\ \/ /\ Finish(p, ErrResult("DownloadError"))
          /\ UNCHANGED image_bytes
       \/ \E body \in Bodies :
            /\ image_bytes' = [image_bytes EXCEPT ![p] = body]
            /\ Goto(p, "create_src")
            /\ UNCHANGED result
    /\ UNCHANGED <<dirExists, store, req, read_kind, encoded_data, nreq, persisted, returned, prior>>

\* lines 166-168: fs::File::create of the source blob
CreateSource(p) ==
    /\ pc[p] = "create_src"
    /\ UNCHANGED dim_vars
    /\ UNCHANGED <<metrics, stages, src_hit, bad_sources, after_bad>>
    /\ Count(p, "disk")
    /\ \/ /\ Finish(p, ErrResult("FileCreationError"))
          /\ UNCHANGED store
       \/ /\ store' = FileCreate(store, downloaded_image_path(req[p]))
          /\ Goto(p, "write_src")
          /\ UNCHANGED result
    /\ UNCHANGED <<dirExists, req, read_kind, image_bytes, encoded_data, nreq, persisted, returned,
                   prior>>

\* lines 169-174, 181-183: write_all of the downloaded bytes, then the check
\* that image_bytes is not empty
WriteSource(p) ==
    /\ pc[p] = "write_src"
    /\ UNCHANGED dim_vars
    /\ Count(p, "disk")
    /\ \/ \E k \in 0..(Len(image_bytes[p]) - 1) :
            /\ store' = FileWritePart(store, downloaded_image_path(req[p]),
                                      image_bytes[p], k)
            /\ Finish(p, ErrResult("FileWriteError"))
            /\ UNCHANGED bad_sources
       \/ /\ store' = FileWriteAll(store, downloaded_image_path(req[p]), image_bytes[p])
          /\ IF EmptyImageError(image_bytes[p]) # ""
             THEN /\ Finish(p, ErrResult(EmptyImageError(image_bytes[p])))
                  /\ bad_sources' = bad_sources \cup {req[p].source}
             ELSE /\ Goto(p, "process")
                  /\ UNCHANGED <<result, bad_sources>>
    /\ UNCHANGED <<metrics, stages, src_hit, after_bad>>
    /\ UNCHANGED <<dirExists, req, read_kind, image_bytes, encoded_data, nreq, persisted, returned,
                   prior>>

\* lines 225-229: the answer of a request that ran the pipeline
Transformed(p) == Finish(p, OkResult("TRANSFORMED", req[p]))

\* the stages of process_image that have run when it stops with error e
StagesRun(p, e) ==
    calls' = [calls EXCEPT ![p].decode = 1,
                           ![p].resize = IF e = "ImageDecodeError" THEN 0 ELSE 1,
                           ![p].encode = IF e \in {"ImageDecodeError", "ResizeError"}
                                         THEN 0 ELSE 1]

\* process_image stopping with an error, had it left a file at the transformed
\* path behind
ProcessImageFails_LeavesFile(p) ==
    /\ pc[p] = "process"
    /\ UNCHANGED dim_vars
    /\ \E e \in {"ImageDecodeError", "ResizeError", "ImageEncodeError", "ProcessingError"} :
        /\ StagesRun(p, e)
        /\ RanUntil(p, e)
        /\ Finish(p, ErrResult(e))
    /\ store' = FileCreate(store, resized_filename(req[p]))
    /\ UNCHANGED <<metrics, src_hit, bad_sources, after_bad>>
    /\ UNCHANGED <<dirExists, req, read_kind, image_bytes, encoded_data, nreq, persisted,
                   returned, prior>>

\* lines 187-197, 232-282: the blocking task process_image (decode, resize,
\* encode) stops with an error; a panic in it surfaces as ProcessingError
ProcessImageFails(p) ==
    /\ pc[p] = "process"
    /\ UNCHANGED dim_vars
    /\ \E e \in {"ImageDecodeError", "ResizeError", "ImageEncodeError", "ProcessingError"} :
        /\ StagesRun(p, e)
        /\ RanUntil(p, e)
        /\ Finish(p, ErrResult(e))
    /\ UNCHANGED <<metrics, src_hit, bad_sources, after_bad>>
    /\ UNCHANGED <<dirExists, store, req, read_kind, image_bytes, encoded_data, nreq, persisted,
                   returned, prior>>

\* lines 268-271, 296-343, 207-229: process_image with "heic": encode_heic
\* writes the output file itself and process_image returns no bytes
ProcessImageHeic(p) ==
    /\ pc[p] = "process"
    /\ UNCHANGED dim_vars
    /\ format_str(req[p]) = "heic"
    /\ StagesRun(p, "")
    /\ RanUntil(p, "")
    /\ \/ /\ Finish(p, ErrResult("FileCreationError"))
          /\ UNCHANGED <<store, persisted, metrics>>
       \/ /\ store' = Put(store, resized_filename(req[p]), EncodedBytes(image_bytes[p]))
          /\ persisted' = persisted \cup {resized_filename(req[p])}
          /\ metrics' = [metrics EXCEPT ![p] = final_metrics]
          /\ Transformed(p)
    /\ UNCHANGED <<src_hit, bad_sources, after_bad>>
    /\ encoded_data' = [encoded_data EXCEPT ![p] = <<>>]
    /\ UNCHANGED <<dirExists, req, read_kind, image_bytes, nreq, returned, prior>>

\* lines 265-281, 207-208, 215-229: process_image with encode_avif, encode_jxl
\* or encode_qoi returns the bytes; the handler then decides whether it has
\* something to write
ProcessImageBytes(p) ==
    /\ pc[p] = "process"
    /\ UNCHANGED dim_vars
    /\ format_str(req[p]) # "heic"
    /\ StagesRun(p, "")
    /\ \E data \in EncoderOutputs(image_bytes[p]) :
        /\ encoded_data' = [encoded_data EXCEPT ![p] = data]
        /\ IF HandlerPersists(data)
           THEN /\ Goto(p, "create_out")
                /\ metrics' = [metrics EXCEPT ![p] =
                                  insert_first(process_metrics, "Downloading")]
                /\ UNCHANGED result
           ELSE /\ Transformed(p)
                /\ metrics' = [metrics EXCEPT ![p] = final_metrics]
    /\ RanUntil(p, "")
    /\ UNCHANGED <<src_hit, bad_sources, after_bad>>
    /\ UNCHANGED <<dirExists, store, req, read_kind, image_bytes, nreq, persisted, returned, prior>>

\* lines 209-211: fs::File::create of the transformed blob
CreateResized(p) ==
    /\ pc[p] = "create_out"
    /\ UNCHANGED dim_vars
    /\ Ran(p, "persist")
    /\ UNCHANGED <<metrics, src_hit, bad_sources, after_bad>>
    /\ Count2(p, "disk", "persist")
    /\ \/ /\ Finish(p, ErrResult("FileCreationError"))
          /\ UNCHANGED store
       \/ /\ store' = FileCreate(store, resized_filename(req[p]))
          /\ Goto(p, "write_out")
          /\ UNCHANGED result
    /\ UNCHANGED <<dirExists, req, read_kind, image_bytes, encoded_data, nreq, persisted, returned,
                   prior>>

\* lines 212-229: write_all of encoded_data, then the TRANSFORMED answer
WriteResized(p) ==
    /\ pc[p] = "write_out"
    /\ UNCHANGED dim_vars
    /\ Count(p, "disk")
    /\ \/ /\ \E k \in 0..(Len(encoded_data[p]) - 1) :
               store' = FileWritePart(store, resized_filename(req[p]), encoded_data[p], k)
          /\ Finish(p, ErrResult("FileWriteError"))
          /\ UNCHANGED <<persisted, metrics>>
       \/ /\ store' = FileWriteAll(store, resized_filename(req[p]), encoded_data[p])
          /\ persisted' = persisted \cup {resized_filename(req[p])}
          /\ metrics' = [metrics EXCEPT ![p] = Append(@, "Saving")]
          /\ Transformed(p)
    /\ UNCHANGED <<stages, src_hit, bad_sources, after_bad>>
    /\ UNCHANGED <<dirExists, req, read_kind, image_bytes, encoded_data, nreq, returned, prior>>

\* the response is sent and the handler's locals are dropped
Return(p) ==
    /\ pc[p] = "done"
    /\ UNCHANGED dim_vars
    /\ metrics' = [metrics EXCEPT ![p] = <<>>]
    /\ stages' = [stages EXCEPT ![p] = <<>>]
    /\ src_hit' = [src_hit EXCEPT ![p] = FALSE]
    /\ after_bad' = [after_bad EXCEPT ![p] = FALSE]
    /\ UNCHANGED bad_sources
    /\ returned' = IF result[p].status = "TRANSFORMED"
                   THEN returned \cup {result[p].filename}
                   ELSE returned
    /\ Goto(p, "idle")
    /\ req' = [req EXCEPT ![p] = NoRequest]
    /\ read_kind' = [read_kind EXCEPT ![p] = ""]
    /\ image_bytes' = [image_bytes EXCEPT ![p] = <<>>]
    /\ encoded_data' = [encoded_data EXCEPT ![p] = <<>>]
    /\ result' = [result EXCEPT ![p] = NoResult]
    /\ calls' = [calls EXCEPT ![p] = NoCalls]
    /\ prior' = [prior EXCEPT ![p] = FALSE]
    /\ UNCHANGED <<dirExists, store, nreq, persisted>>

Next ==
    \E p \in Procs :
        \/ Start(p)
        \/ CreateDirAll(p)
        \/ CheckExists(p)
        \/ ReadSource(p)
        \/ Download(p)
        \/ CreateSource(p)
        \/ WriteSource(p)
        \/ ProcessImageFails(p)
        \/ ProcessImageHeic(p)
        \/ ProcessImageBytes(p)
        \/ CreateResized(p)
        \/ WriteResized(p)
        \/ Return(p)

Spec == Init /\ [][Next]_vars

(* ---------------- calculate_resized_dimensions on its own ---------------- *)

\* the function is about to be applied to some image and tallest_side
InitDims ==
    /\ HandlerInit
    /\ \E i \in DimInputs :
        /\ image = [width |-> i[1], height |-> i[2]]
        /\ tallest_side = i[3]
    /\ resized_dims = NoDims

\* lines 248-249: the call of calculate_resized_dimensions
Calculate ==
    /\ resized_dims = NoDims
    /\ resized_dims' = calculate_resized_dimensions(image, tallest_side)
    /\ UNCHANGED <<image, tallest_side>>
    /\ UNCHANGED handler_vars

NextDims == Calculate

SpecDims == InitDims /\ [][NextDims]_vars

TypeOK ==
    /\ dirExists \in BOOLEAN
    /\ pc \in [Procs -> {"idle", "mkdir", "exists", "read", "download", "create_src",
                         "write_src", "process", "create_out",
                         "write_out", "done"}]
    /\ nreq \in 0..MaxRequests
    /\ src_hit \in [Procs -> BOOLEAN]
    /\ after_bad \in [Procs -> BOOLEAN]
    /\ bad_sources \subseteq Sources
    /\ image.width \in Nat /\ image.height \in Nat /\ tallest_side \in Nat
    /\ resized_dims = NoDims \/ (resized_dims.width \in Nat /\ resized_dims.height \in Nat)
    /\ \A p \in Procs : result[p].kind = "Err" => result[p].error \in CustomError

(* ---------------- vocabulary of the claims ---------------- *)

\* the names transformed blobs are stored under
TransformedNames == {resized_filename(r) : r \in {q \in Requests : q.kind = "json"}}

\* the names source blobs are stored under
SourceNames == {calculate_hash(src) : src \in Sources}

\* the request of p ran none of the pipeline's stages
NoPipelineWork(c) ==
    c.download = 0 /\ c.decode = 0 /\ c.resize = 0 /\ c.encode = 0 /\ c.persist = 0

\* the download of the request of p answered with an empty body
DownloadedEmpty(p) ==
    /\ pc[p] \in {"create_src", "write_src", "done"}
    /\ calls[p].download = 1
    /\ image_bytes[p] = <<>>
    /\ result[p].error # "DownloadError"

(* ---------------- C1 ---------------- *)

\* C1: idempotence of resize_handler.  A request whose (source, tallestSide,
\* format) an earlier request has answered TRANSFORMED for answers
\* ALREADY_TRANSFORMED with the same hash and file name, and runs no
\* download, decode, resize, encode or persist step.
C1_Idempotence ==
    \A p \in Procs :
        (pc[p] = "done" /\ prior[p]) =>
            /\ result[p] = OkResult("ALREADY_TRANSFORMED", req[p])
            /\ NoPipelineWork(calls[p])

(* ---------------- C2 ---------------- *)

\* C2: in every reachable state, a transformed blob that exists was computed
\* and fully written by an earlier request for the same triple, and
\* ALREADY_TRANSFORMED is only answered for such a triple.
C2_ExistenceProvesTransform ==
    /\ \A f \in DOMAIN store : f \in TransformedNames => f \in persisted
    /\ \A p \in Procs :
        (pc[p] = "done" /\ result[p].status = "ALREADY_TRANSFORMED") =>
            result[p].filename \in persisted

(* ---------------- C3 ---------------- *)

\* the request of p carries a format string that names none of the four
\* formats
UnrecognizedFormat(p) ==
    /\ req[p].kind = "json"
    /\ req[p].format # None
    /\ to_lowercase(req[p].format[1]) \notin {"avif", "heic", "jxl", "qoi"}

\* C3: a request with an unrecognized format string (such as "bmp") is
\* answered UnsupportedFormat, and has then made no download attempt and no
\* disk access, whatever the store holds.
C3_UnsupportedFormatNoIO ==
    \A p \in Procs :
        UnrecognizedFormat(p) =>
            /\ pc[p] = "done"
            /\ result[p] = ErrResult("UnsupportedFormat")
            /\ calls[p] = NoCalls

\* a "bmp" request was rejected while the store held blobs
C3_Witness ==
    \E p \in Procs :
        /\ UnrecognizedFormat(p)
        /\ result[p] = ErrResult("UnsupportedFormat")
        /\ DOMAIN store # {}

(* ---------------- C4 ---------------- *)

\* C4: a request without a format field is not rejected for its format; it
\* goes on to the cache lookup with a default format.
C4_AbsentFormatDefault ==
    \A p \in Procs :
        (req[p].kind = "json" /\ req[p].format = None) =>
            result[p].error # "UnsupportedFormat"

(* ---------------- C5 ---------------- *)

\* a handler has created the source blob f and has not reached its write yet
BeingWritten(f) ==
    \E p \in Procs : pc[p] = "write_src" /\ downloaded_image_path(req[p]) = f

\* C5: no source blob stored under a CacheKey is zero-length (a blob whose
\* writer stands between its create and its write is not counted as stored).
C5_NoEmptySourceBlob ==
    \A f \in DOMAIN store :
        (f \in SourceNames /\ ~BeingWritten(f)) => store[f] # <<>>

(* ---------------- C6 ---------------- *)

C7_SourceLookup ==
    [][\A p \in Procs :
        (pc[p] = "read" /\ pc'[p] # "read") =>
            LET f == downloaded_image_path(req[p]) IN
            /\ store' = store
            /\ calls'[p].download = 0
            /\ (f \in DOMAIN store /\ store[f] = <<>> /\ read_kind'[p] = "Ok") =>
                   pc'[p] = "done" /\ result'[p] = ErrResult("FileCorruptError")
            /\ read_kind'[p] = "OtherError" =>
                   pc'[p] = "done" /\ result'[p] = ErrResult("FileReadError")
            /\ pc'[p] = "download" <=> (read_kind'[p] = "NotFound" /\ f \notin DOMAIN store)
            /\ read_kind'[p] = "Ok" => f \in DOMAIN store]_vars

\* a request found a zero-length source blob and was answered
\* FileCorruptError without a download
C7_Witness ==
    \E p \in Procs :
        /\ pc[p] = "done"
        /\ result[p] = ErrResult("FileCorruptError")
        /\ resized_filename(req[p]) \notin DOMAIN store
        /\ store[downloaded_image_path(req[p])] = <<>>
        /\ calls[p].download = 0

(* ---------------- C8 ---------------- *)

\* the step taken is the handler of p creating (or, for heic, writing) file f
Creates(p, f) ==
    \/ pc[p] = "create_src" /\ pc'[p] = "write_src" /\ f = downloaded_image_path(req[p])
    \/ pc[p] = "create_out" /\ pc'[p] = "write_out" /\ f = resized_filename(req[p])
    \/ /\ pc[p] = "process" /\ format_str(req[p]) = "heic"
       /\ result'[p].status = "TRANSFORMED" /\ f = resized_filename(req[p])

\* C8: no blob is ever deleted, and every create of a source or transformed
\* blob targets a path that does not exist at that moment.
C8_NeverOverwritten ==
    [][/\ DOMAIN store \subseteq DOMAIN store'
       /\ \A p \in Procs : \A f \in SourceNames \cup TransformedNames :
            Creates(p, f) => f \notin DOMAIN store]_vars

(* ---------------- C9 ---------------- *)

\* C9: when two requests for the same triple have both run the pipeline,
\* written the output and answered TRANSFORMED, the transformed blob holds
\* the complete encoded output of one of them.
C9_LastWriterWins ==
    \A p, q \in Procs :
        (/\ p # q
         /\ pc[p] = "done" /\ pc[q] = "done"
         /\ result[p].status = "TRANSFORMED" /\ result[q] = result[p]
         /\ calls[p].persist = 1 /\ calls[q].persist = 1) =>
            store[result[p].filename] \in {encoded_data[p], encoded_data[q]}

(* ---------------- C10 ---------------- *)

\* the validation errors of the taxonomy
ValidationErrors == {"UnsupportedFormat", "BadRequest", "JsonDeserializeError"}

\* C10: an error is answered with the JSON body {status: "ERROR", reason}
\* and a 4xx status for a validation error, a 5xx status for any other.
C10_ErrorStatusMapped ==
    \A p \in Procs :
        (pc[p] = "done" /\ result[p].kind = "Err") =>
            LET r == respond_to(result[p]) IN
            /\ r.body.status = "ERROR"
            /\ IF result[p].error \in ValidationErrors
               THEN r.status \in 400..499
               ELSE r.status \in 500..599

(* ---------------- C11 ---------------- *)

\* the request of p passed the validator
Accepted(p) ==
    /\ req[p].kind = "json"
    /\ pc[p] # "idle"
    /\ result[p].error # "UnsupportedFormat"

\* the four tags
Tags == {"avif", "heic", "jxl", "qoi"}

\* the lowercase spelling of a format string of the model
Lowercased(s) == IF s = "QOI" THEN "qoi" ELSE s

\* C11 as stated: an accepted request carries a format string that is exactly
\* one of the lowercase tags; every other string, a different-case spelling
\* included, is rejected.
C11_ExactLowercaseOnly ==
    \A p \in Procs :
        Accepted(p) => (req[p].format # None /\ req[p].format[1] \in Tags)

\* C11 as amended: a request is accepted exactly when the lowercase form of
\* its format string is one of the four tags, and it is then handled under
\* the lowercase tag; every other request is answered UnsupportedFormat
\* before any I/O.
C11_LowercasedMatch ==
    \A p \in Procs :
        (req[p].kind = "json" /\ pc[p] # "idle") =>
            IF req[p].format # None /\ Lowercased(req[p].format[1]) \in Tags
            THEN /\ Accepted(p)
                 /\ result[p].kind = "Ok" =>
                        result[p].filename =
                            calculate_hash(req[p].source) \o "_"
                                \o ToString(req[p].tallestSide) \o "."
                                \o Lowercased(req[p].format[1])
            ELSE /\ pc[p] = "done"
                 /\ result[p] = ErrResult("UnsupportedFormat")
                 /\ calls[p] = NoCalls

\* a request with format "QOI" was transformed into the .qoi blob
C11_Witness ==
    \E p \in Procs :
        /\ req[p].format = Some("QOI")
        /\ result[p].status = "TRANSFORMED"
        /\ result[p].filename = "b3a_1.qoi"
        /\ "b3a_1.qoi" \in DOMAIN store

(* ---------------- C12 ---------------- *)

\* C12: a request whose body exceeds the ceiling of 1024 bytes is answered
\* BadRequest, never accepted, and rejected before any network or disk
\* access.
C12_OversizeBadRequest ==
    \A p \in Procs :
        (pc[p] # "idle" /\ req[p].body_len > BodyLimit) =>
            /\ pc[p] = "done"
            /\ result[p] = ErrResult("BadRequest")
            /\ calls[p] = NoCalls

(* ---------------- C14: stage order and metrics order ---------------- *)

AllStages == <<"download", "decode", "resize", "encode", "persist">>

AllSteps == <<"Downloading", "Decoding", "Resizing", "Encoding", "Saving">>

AnsweredTransformed(p) == pc[p] = "done" /\ result[p].status = "TRANSFORMED"

\* the stages a request that answers TRANSFORMED is expected to have run:
\* download only after a source-cache miss, persist only when the handler
\* itself wrote the transformed blob
StagesDue(p) ==
    (IF read_kind[p] = "NotFound" THEN <<"download">> ELSE <<>>)
    \o <<"decode", "resize", "encode">>
    \o (IF calls[p].persist = 1 THEN <<"persist">> ELSE <<>>)

\* C14 as stated: every request that answers TRANSFORMED has run the five
\* stages download, decode, resize, encode, persist in that order, and its
\* metrics vector has one entry per stage in that order.
C14_AllStagesInOrder ==
    \A p \in Procs :
        AnsweredTransformed(p) => (stages[p] = AllStages /\ metrics[p] = AllSteps)

\* C14 amended: a request that answers TRANSFORMED has run decode, resize,
\* encode in that order, preceded by download exactly when the source was not
\* cached and followed by persist exactly when the handler wrote the encoder's
\* bytes (a byte format with non-empty output); its metrics vector is always
\* Downloading, Decoding, Resizing, Encoding, Saving, in that order, and no
\* request that ends otherwise has a complete metrics vector.
C14_StagesInOrder ==
    \A p \in Procs :
        /\ AnsweredTransformed(p) =>
              /\ stages[p] = StagesDue(p)
              /\ metrics[p] = AllSteps
              /\ calls[p].persist = 1 <=>
                    (format_str(req[p]) # "heic" /\ encoded_data[p] # <<>>)
        /\ (pc[p] = "done" /\ result[p].status # "TRANSFORMED") => metrics[p] # AllSteps

\* a request that downloaded, ran the pipeline and wrote the blob itself, and
\* one that answered TRANSFORMED from a cached source
C14_Witness ==
    \E p \in Procs :
        /\ AnsweredTransformed(p)
        /\ stages[p] = AllStages
        /\ metrics[p] = AllSteps

C14_WitnessCached ==
    \E p \in Procs :
        /\ AnsweredTransformed(p)
        /\ read_kind[p] = "Ok"
        /\ stages[p] = <<"decode", "resize", "encode", "persist">>

(* ---------------- C15: at most one download, none on a cache hit ---------------- *)

DownloadPositions == {"download", "create_src", "write_src"}

\* C15: a request issues at most one download; a request that arrives when a
\* non-empty source blob is stored under its key finds a blob when it reads,
\* issues no download and never reaches the creation or the write of the
\* source blob; when it runs the pipeline it does so on bytes it read.
C15_AtMostOneDownload ==
    \A p \in Procs :
        /\ calls[p].download <= 1
        /\ src_hit[p] =>
              /\ calls[p].download = 0
              /\ pc[p] \notin DownloadPositions
              /\ read_kind[p] # "NotFound"
              /\ "download" \notin {stages[p][i] : i \in DOMAIN stages[p]}
              /\ calls[p].decode = 1 => read_kind[p] = "Ok"

\* a later request for the same source with another tallestSide is answered
\* TRANSFORMED from the stored blob, and one request did download
C15_Witness ==
    \E p, q \in Procs :
        /\ src_hit[p]
        /\ AnsweredTransformed(p)
        /\ req[p].tallestSide = 2
        /\ image_bytes[p] = store[downloaded_image_path(req[p])]
        /\ calls[p].download = 0
        /\ calls[q].download = 1

(* ---------------- C16: a failed pipeline leaves no transformed blob ---------------- *)

PipelineErrors == {"ImageDecodeError", "ResizeError", "ImageEncodeError"}

\* the last stage that ran when process_image stopped with error e
FailedStage(e) ==
    CASE e = "ImageDecodeError" -> "decode"
      [] e = "ResizeError" -> "resize"
      [] OTHER -> "encode"

\* the handler of p leaves process_image without a TRANSFORMED answer
PipelineFailure(p) ==
    /\ pc[p] = "process"
    /\ pc'[p] = "done"
    /\ format_str(req[p]) # "heic"
    /\ result'[p].status # "TRANSFORMED"

\* C16: for avif, jxl and qoi, a request that fails in decode, resize or
\* encode returns the error of the stage that failed, creates no file and
\* changes no blob (so the transformed path is absent afterwards if it was
\* absent before), never reaches the handler's persist, and the source blob
\* it read or downloaded is still stored.
C16_FailureLeavesNoBlob ==
    [][\A p \in Procs :
          PipelineFailure(p) =>
            /\ result'[p].error \in PipelineErrors \cup {"ProcessingError"}
            /\ result'[p].error \in PipelineErrors =>
                  stages'[p][Len(stages'[p])] = FailedStage(result'[p].error)
            /\ store' = store
            /\ persisted' = persisted
            /\ calls'[p].persist = 0
            /\ downloaded_image_path(req[p]) \in DOMAIN store'
            /\ (resized_filename(req[p]) \notin DOMAIN store) =>
                  (resized_filename(req[p]) \notin DOMAIN store')]_vars

\* a qoi request downloaded its source, failed in encode, and its source blob
\* is stored while the transformed path is absent
C16_Witness ==
    \E p \in Procs :
        /\ pc[p] = "done"
        /\ format_str(req[p]) = "qoi"
        /\ result[p].error = "ImageEncodeError"
        /\ calls[p].download = 1
        /\ store[downloaded_image_path(req[p])] = image_bytes[p]
        /\ resized_filename(req[p]) \notin DOMAIN store

(* ---------------- C17: persist for every byte format ---------------- *)

\* C17: a TRANSFORMED answer for avif, jxl or qoi is preceded by the handler
\* creating and writing the transformed path, whatever bytes the encoder
\* returned, so the transformed blob exists when TRANSFORMED is returned; for
\* heic the handler performs no write of its own.
C17_PersistUnlessHeic ==
    \A p \in Procs :
        AnsweredTransformed(p) =>
            IF format_str(req[p]) = "heic"
            THEN calls[p].persist = 0
            ELSE /\ calls[p].persist = 1
                 /\ resized_filename(req[p]) \in DOMAIN store

(* ---------------- C19: recovery after an empty download ---------------- *)

\* C19: a request that arrives after an earlier request for the same source
\* ended with BadRequest on an empty download body does not fail with
\* FileCorruptError; when it reads the source it finds none stored and
\* downloads again.
C19_RecoversAfterEmptyDownload ==
    \A p \in Procs :
        (after_bad[p] /\ pc[p] = "done") =>
            /\ result[p].error # "FileCorruptError"
            /\ read_kind[p] \in {"", "NotFound"}

(* ---------------- C20: concurrent downloads of one source ---------------- *)

\* q has created the source blob of p's source and not yet written its
\* non-empty download
MidWrite(q, p) ==
    /\ q # p
    /\ pc[q] = "write_src"
    /\ downloaded_image_path(req[q]) = downloaded_image_path(req[p])
    /\ image_bytes[q] # <<>>

\* C20: no request reads the source blob as a zero-length blob, and returns
\* FileCorruptError, while another request stands between its creation of
\* that blob and its write of non-empty downloaded bytes.
C20_NoCorruptUnderRace ==
    [][\A p \in Procs :
          (pc[p] = "read" /\ pc'[p] = "done" /\ result'[p].error = "FileCorruptError") =>
              ~ \E q \in Procs : MidWrite(q, p)]_vars

(* ---------------- C13: agreement with the exact reference ---------------- *)

\* n / d rounded to the nearest integer, ties away from zero, in exact
\* arithmetic (n >= 0, d > 0)
RoundExact(n, d) == (2 * n + d) \div (2 * d)

\* the reference of the claim
ReferenceDimensions(w, h, t) ==
    IF w = 0 \/ h = 0 \/ t = 0 THEN [width |-> 0, height |-> 0]
    ELSE IF w >= h THEN [width |-> t, height |-> RoundExact(t * h, w)]
    ELSE [width |-> RoundExact(t * w, h), height |-> t]

Calculated == resized_dims # NoDims

\* C13: for every input (w, h, t), calculate_resized_dimensions returns (0,0)
\* when one of them is zero, (t, round(t*h/w)) when w >= h and
\* (round(t*w/h), t) when w < h, with round to nearest, ties away from zero.
C13_AgreesWithReference ==
    Calculated =>
        resized_dims = ReferenceDimensions(image.width, image.height, tallest_side)

(* ---------------- C18: no zero side past the guard ---------------- *)

Larger(a, b) == IF a >= b THEN a ELSE b

Smaller(a, b) == IF a >= b THEN b ELSE a

\* C18: for w > 0, h > 0 and t > 0 both sides of the result are at least 1,
\* the longer side of the result is t and the other side is at most t.
C18_NoZeroSide ==
    (Calculated /\ image.width > 0 /\ image.height > 0 /\ tallest_side > 0) =>
        /\ resized_dims.width >= 1
        /\ resized_dims.height >= 1
        /\ Larger(resized_dims.width, resized_dims.height) = tallest_side
        /\ Smaller(resized_dims.width, resized_dims.height) <= tallest_side

====
